---- MODULE Spec2Model ----
(***************************************************************************)
(* zugzug ("zz"): a registry of named buckets kept in ~/.zz.json, and the  *)
(* date-prefixed directories created inside them.                          *)
(*                                                                         *)
(* The Store operations of src/store.rs are operators that take the        *)
(* in-memory StoreData and the outcome of every fs::write they perform and *)
(* return the new StoreData, the documents written and the Result.         *)
(***************************************************************************)
EXTENDS Integers, Sequences, FiniteSets, TLC

\* ---- bounds of the model ----
MaxBuckets == 3
MaxFaults == 1
MaxCliBuckets == 2

\* bucket names and bucket base paths given on the command line
Names == {"a", "b"}
Dirs == {"p", "q"}

\* the <NAME> <DIR> pairs given to bucket add
Adds == {<<"a", "p">>, <<"a", "q">>, <<"b", "q">>}

\* ---- Option<T> ----
None == <<>>
Some(x) == <<x>>

\* ---- error messages (src/errors.rs ZugzugError details, std::io::Error) ----
Ok == "Ok"
BucketNotFound == "Bucket doesn't exist"
PathExists == "Path already exists"
StoreUnavailable == "Could not get home directory"
IoError == "io error"
ParseError == "parse error"

\* ---- struct Bucket, struct StoreData ----
Bucket(n, p) == [name |-> n, path |-> p]

StoreData(d, bs) == [default_bucket |-> d, buckets |-> bs]

\* Store::new: no buckets, no default
NewData == StoreData(None, <<>>)

\* ---- serde_json: StoreData <-> JSON document ----
JNull == <<"null">>
JStr(s) == <<"str", s>>

to_string(d) ==
  [default_bucket |-> IF d.default_bucket = None THEN JNull
                      ELSE JStr(d.default_bucket[1]),
   buckets |-> [i \in 1..Len(d.buckets) |->
                  [name |-> JStr(d.buckets[i].name),
                   path |-> JStr(d.buckets[i].path)]]]

from_str(j) ==
  [default_bucket |-> IF j.default_bucket = JNull THEN None
                      ELSE Some(j.default_bucket[2]),
   buckets |-> [i \in 1..Len(j.buckets) |->
                  Bucket(j.buckets[i].name[2], j.buckets[i].path[2])]]

\* ---- the store file ~/.zz.json ----
\* kind: "none" (no file), "json" (a document), "garbage" (a write that
\* failed after the file was truncated)
NoFile == [kind |-> "none", doc |-> to_string(NewData)]
Garbage == [kind |-> "garbage", doc |-> to_string(NewData)]
JsonFile(j) == [kind |-> "json", doc |-> j]

\* ---- result of a Store operation ----
\* data: StoreData after the call; docs: documents fs::write wrote, in order;
\* res: Ok or the error returned
Outcome(d, w, r) == [data |-> d, docs |-> w, res |-> r]

Min(S) == CHOOSE i \in S : \A j \in S : i <= j

\* a persist that reports success without writing the file
persist_unwritten(d, ok) == Outcome(d, <<>>, IF ok THEN Ok ELSE IoError)

\* Store::persist: one fs::write of the whole document; ok is its outcome
persist(d, ok) ==
  IF ok THEN Outcome(d, <<to_string(d)>>, Ok) ELSE Outcome(d, <<>>, IoError)

\* Store::find_bucket: first bucket with that name
find_bucket(d, name) ==
  LET idx == {i \in 1..Len(d.buckets) : d.buckets[i].name = name}
  IN  IF idx = {} THEN None ELSE Some(d.buckets[Min(idx)])

\* Store::default_bucket: resolves the stored name against buckets
default_bucket(d) ==
  IF d.default_bucket = None THEN None
  ELSE find_bucket(d, d.default_bucket[1])

\* a set_default_bucket without the find_bucket check
set_default_bucket_unchecked(d, name, ok) ==
  persist([d EXCEPT !.default_bucket = Some(name)], ok)

\* Store::set_default_bucket
set_default_bucket(d, name, ok) ==
  IF find_bucket(d, name) # None
  THEN persist([d EXCEPT !.default_bucket = Some(name)], ok)
  ELSE Outcome(d, <<>>, BucketNotFound)

\* an unset_default_bucket that does not persist
unset_default_bucket_unsaved(d, ok) ==
  Outcome([d EXCEPT !.default_bucket = None], <<>>, Ok)

\* Store::unset_default_bucket
unset_default_bucket(d, ok) ==
  persist([d EXCEPT !.default_bucket = None], ok)

\* an add_bucket that makes every new bucket the default
add_bucket_takes_default(d, name, dir, f) ==
  persist(StoreData(Some(name), Append(d.buckets, Bucket(name, dir))), f # 1)

\* Store::add_bucket; f is the number of the fs::write that fails (0: none)
add_bucket(d, name, dir, f) ==
  LET d1 == [d EXCEPT !.buckets = Append(d.buckets, Bucket(name, dir))]
  IN  IF default_bucket(d1) = None
      THEN LET s == set_default_bucket(d1, name, f # 1)
           IN  IF s.res # Ok THEN s
               ELSE LET p == persist(s.data, f # 2)
                    IN  Outcome(p.data, s.docs \o p.docs, p.res)
      ELSE persist(d1, f # 1)

\* a filter that removes the first match only
Filter_first(bs, name) ==
  LET idx == {i \in 1..Len(bs) : bs[i].name = name}
  IN  IF idx = {} THEN bs
      ELSE [i \in 1..(Len(bs) - 1) |-> IF i < Min(idx) THEN bs[i] ELSE bs[i + 1]]

\* the filter of Store::forget_bucket
Filter(bs, name) == SelectSeq(bs, LAMBDA b : b.name # name)

\* a forget_bucket that leaves the default alone
forget_bucket_keeps_default(d, name, f) ==
  persist([d EXCEPT !.buckets = Filter(d.buckets, name)], f # 1)

\* a forget_bucket that always clears the default
forget_bucket_clears_default(d, name, f) ==
  LET u == unset_default_bucket(d, f # 1)
  IN  IF u.res # Ok THEN u
      ELSE LET p == persist([u.data EXCEPT !.buckets = Filter(u.data.buckets, name)],
                            f # 2)
           IN  Outcome(p.data, u.docs \o p.docs, p.res)

\* Store::forget_bucket; f is the number of the fs::write that fails (0: none)
forget_bucket(d, name, f) ==
  LET db == default_bucket(d)
      u == IF db # None /\ db[1].name = name
           THEN unset_default_bucket(d, f # 1)
           ELSE Outcome(d, <<>>, Ok)
  IN  IF u.res # Ok THEN u
      ELSE LET d2 == [u.data EXCEPT !.buckets = Filter(u.data.buckets, name)]
               p == persist(d2, f # (Len(u.docs) + 1))
           IN  Outcome(p.data, u.docs \o p.docs, p.res)

\* the store file after an operation: the last document written; a failed
\* fs::write leaves the file as it was or truncated
FileAfter(fl, o, trunc) ==
  IF o.res = IoError /\ trunc THEN Garbage
  ELSE IF o.docs = <<>> THEN fl
  ELSE JsonFile(o.docs[Len(o.docs)])

\* Store::load with Store::from_home, Store::init and Store::internal_load.
\* lines: what it prints.
\* home: dirs::home_dir() found a directory; f: 1 when the fs::write of init
\* fails, 2 when the fs::read of internal_load fails, 0 when neither does
load(fl, home, f, trunc) ==
  LET initd == IF fl.kind = "none" THEN persist(NewData, f # 1)
               ELSE Outcome(NewData, <<>>, Ok)
      fl1 == FileAfter(fl, initd, trunc)
      lines == IF fl.kind = "none" THEN << <<"location does not exist yet">> >>
               ELSE <<>>
      Loaded(r, d, fl2, ls) == [res |-> r, data |-> d, file |-> fl2, lines |-> ls]
  IN  IF ~home THEN Loaded(StoreUnavailable, NewData, fl, <<>>)
      ELSE IF initd.res # Ok THEN Loaded(IoError, NewData, fl1, lines)
      ELSE IF f = 2 THEN Loaded(IoError, NewData, fl1, lines)
      ELSE IF fl1.kind # "json" THEN Loaded(ParseError, NewData, fl1, lines)
      ELSE Loaded(Ok, from_str(fl1.doc), fl1, lines)

\* the HashSet built by Store::internal_load
NamesOf(d) == {d.buckets[i].name : i \in 1..Len(d.buckets)}

VARIABLES
  pc,            \* "none": no Store object; "loaded": Store::load returned Ok
  data,          \* Store.data
  bucket_names,  \* Store.bucket_names
  file,          \* the store file
  ret,           \* the last call: its arguments, its Result, the state before
  faults,        \* failures of the environment so far
  entries,       \* directory entries below the bucket paths: <<path, name>>
  cmd,           \* the last command: its arguments, what it loaded and did
  today,         \* Local::now() as a date
  out,           \* lines printed by the last command
  exit,          \* exit status of the last command
  procs          \* concurrent invocations of the tool

vars == <<pc, data, bucket_names, file, ret, faults, entries, cmd, today, out, exit,
          procs>>

cliVars == <<entries, cmd, today, out, exit, procs>>

storeVars == <<pc, data, bucket_names, ret>>

\* a call record
Call(op, name, path, res, pre, prefile, docs) ==
  [op |-> op, name |-> name, path |-> path, res |-> res,
   pre |-> pre, prefile |-> prefile, docs |-> docs]

\* what the environment does to one call. home: dirs::home_dir() finds a
\* directory; lf: the failure inside Store::load (see load); f: the number
\* of the fs::write of the Store operation that fails (0: none); trunc: the
\* failed fs::write truncated the file
Io(home, lf, f, trunc) == [home |-> home, lf |-> lf, f |-> f, trunc |-> trunc]

NoFault == Io(TRUE, 0, 0, FALSE)

LoadFaults ==
  IF faults < MaxFaults
  THEN {Io(FALSE, 0, 0, FALSE), Io(TRUE, 1, 0, FALSE), Io(TRUE, 1, 0, TRUE),
        Io(TRUE, 2, 0, FALSE)}
  ELSE {}

WriteFaults ==
  IF faults < MaxFaults
  THEN {Io(TRUE, 0, k, t) : k \in 1..2, t \in BOOLEAN}
  ELSE {}

Fault(res) == IF res \in {IoError, StoreUnavailable} THEN 1 ELSE 0

\* a Store operation applied to the Store object of the process
Apply(op, name, path, o, trunc) ==
  /\ data' = o.data
  /\ file' = FileAfter(file, o, trunc)
  /\ ret' = Call(op, name, path, o.res, data, file, o.docs)
  /\ faults' = faults + Fault(o.res)
  /\ UNCHANGED <<pc, bucket_names>>

Load ==
  /\ pc = "none"
  /\ \E io \in {NoFault} \cup LoadFaults :
       LET l == load(file, io.home, io.lf, io.trunc)
       IN  /\ pc' = IF l.res = Ok THEN "loaded" ELSE "none"
           /\ data' = l.data
           /\ bucket_names' = NamesOf(l.data)
           /\ file' = l.file
           /\ ret' = Call("load", "", "", l.res, data, file,
                          IF file.kind = "none" /\ l.file.kind = "json"
                          THEN <<l.file.doc>> ELSE <<>>)
           /\ faults' = faults + Fault(l.res)
  /\ UNCHANGED cliVars

AddBucket ==
  /\ pc = "loaded"
  /\ Len(data.buckets) < MaxBuckets
  /\ \E a \in Adds, io \in {NoFault} \cup WriteFaults :
       Apply("add_bucket", a[1], a[2], add_bucket(data, a[1], a[2], io.f), io.trunc)
  /\ UNCHANGED cliVars

SetDefaultBucket ==
  /\ pc = "loaded"
  /\ \E name \in Names, io \in {NoFault} \cup WriteFaults :
       Apply("set_default_bucket", name, "",
             set_default_bucket(data, name, io.f # 1), io.trunc)
  /\ UNCHANGED cliVars

UnsetDefaultBucket ==
  /\ pc = "loaded"
  /\ \E io \in {NoFault} \cup WriteFaults :
       Apply("unset_default_bucket", "", "",
             unset_default_bucket(data, io.f # 1), io.trunc)
  /\ UNCHANGED cliVars

ForgetBucket ==
  /\ pc = "loaded"
  /\ \E name \in Names, io \in {NoFault} \cup WriteFaults :
       Apply("forget_bucket", name, "", forget_bucket(data, name, io.f), io.trunc)
  /\ UNCHANGED cliVars

\* the process ends: the Store object is dropped, the file stays
Exit ==
  /\ pc = "loaded"
  /\ pc' = "none"
  /\ data' = NewData
  /\ bucket_names' = {}
  /\ ret' = Call("exit", "", "", Ok, data, file, <<>>)
  /\ UNCHANGED <<file, faults>>
  /\ UNCHANGED cliVars

Date(y, m, d) == [year |-> y, month |-> m, day |-> d]

\* the days the tool runs on
Dates == {Date(2024, 3, 5), Date(2024, 3, 6)}

\* a command record. verb: the subcommand; bucket: the bucket name given, if
\* any; res: the Result of the operation
Cmd(verb, bucket, res) ==
  [verb |-> verb, bucket |-> bucket, res |-> res, name |-> <<>>, target |-> None,
   made |-> None, data |-> NewData, entries0 |-> {}, date |-> Date(0, 0, 0)]

\* the record of a mkdir. name: the <NAME> given; d: the registry Store::load
\* returned; target: the bucket chosen; made: the directory created; e0: the
\* directory entries before the command; date: the day it ran
MkdirCmd(bucket, res, name, d, target, made, e0, date) ==
  [verb |-> "mkdir", bucket |-> bucket, res |-> res, name |-> name, target |-> target,
   made |-> made, data |-> d, entries0 |-> e0, date |-> date]

NoCmd == Cmd("", None, Ok)

Init ==
  /\ pc = "none"
  /\ data = NewData
  /\ bucket_names = {}
  /\ file = NoFile
  /\ ret = Call("new", "", "", Ok, NewData, NoFile, <<>>)
  /\ faults = 0
  /\ entries = {}
  /\ cmd = NoCmd
  /\ today = Date(2024, 3, 5)
  /\ out = <<>>
  /\ exit = 0
  /\ procs = <<>>

Next ==
  \/ Load
  \/ AddBucket
  \/ SetDefaultBucket
  \/ UnsetDefaultBucket
  \/ ForgetBucket
  \/ Exit

Spec == Init /\ [][Next]_vars

\* ---- the registry invariant and the Store contracts ----

HasName(bs, x) == \E i \in 1..Len(bs) : bs[i].name = x

Valid(d) == d.default_bucket # None => HasName(d.buckets, d.default_bucket[1])

RECURSIVE WithoutName(_, _)
WithoutName(bs, x) ==
  IF bs = <<>> THEN <<>>
  ELSE IF Head(bs).name = x THEN WithoutName(Tail(bs), x)
  ELSE <<Head(bs)>> \o WithoutName(Tail(bs), x)

StoreOps == {"add_bucket", "set_default_bucket", "unset_default_bucket", "forget_bucket"}

\* C1: in the in-memory registry, in the store file and in every document
\* an operation wrote, a present default_bucket names a bucket of buckets.
C1_DefaultNamesABucket ==
  /\ Valid(data)
  /\ file.kind = "json" => Valid(from_str(file.doc))
  /\ \A i \in 1..Len(ret.docs) : Valid(from_str(ret.docs[i]))

C1_Witness ==
  /\ ret.op = "forget_bucket"
  /\ ret.res = Ok
  /\ Len(data.buckets) < Len(ret.pre.buckets)
  /\ data.default_bucket # None
  /\ file = JsonFile(to_string(data))

\* C2: forget_bucket(X) leaves no default bucket when X was the default and
\* leaves default_bucket as it was when X was not the default.
C2_ForgetAndDefault ==
  ret.op = "forget_bucket" =>
    IF ret.pre.default_bucket = Some(ret.name)
    THEN default_bucket(data) = None /\ data.default_bucket = None
    ELSE data.default_bucket = ret.pre.default_bucket

C2_Witness ==
  /\ ret.op = "forget_bucket"
  /\ ret.pre.default_bucket = Some(ret.name)
  /\ Len(ret.pre.buckets) = 2
  /\ Len(data.buckets) = 1
  /\ default_bucket(data) = None

\* C3 as stated: set_default_bucket(X) fails with BucketNotFound and changes
\* nothing when X is absent, and succeeds with default_bucket = X when X is
\* present.
C3_SetDefaultAsStated ==
  ret.op = "set_default_bucket" =>
    IF HasName(ret.pre.buckets, ret.name)
    THEN ret.res = Ok /\ data.default_bucket = Some(ret.name)
    ELSE ret.res = BucketNotFound /\ data = ret.pre /\ file = ret.prefile

\* C3 amended: with X absent it fails with BucketNotFound and changes
\* nothing; with X present default_bucket becomes X in memory, and the call
\* succeeds with the file rewritten unless the write of the store file
\* fails, in which case the write error is returned.
C3_SetDefault ==
  ret.op = "set_default_bucket" =>
    IF HasName(ret.pre.buckets, ret.name)
    THEN /\ data = [ret.pre EXCEPT !.default_bucket = Some(ret.name)]
         /\ \/ ret.res = Ok /\ file = JsonFile(to_string(data))
            \/ ret.res = IoError /\ file \in {ret.prefile, Garbage}
    ELSE ret.res = BucketNotFound /\ data = ret.pre /\ file = ret.prefile

C3_Witness ==
  /\ ret.op = "set_default_bucket"
  /\ ret.res = BucketNotFound
  /\ ret.pre.default_bucket # None
  /\ data = ret.pre

\* C4: add_bucket appends exactly the bucket {name, path}, duplicates
\* included; the new name becomes the default when none was set, and the
\* default is unchanged when one was set.
C4_AddBucket ==
  ret.op = "add_bucket" =>
    /\ data.buckets = Append(ret.pre.buckets, Bucket(ret.name, ret.path))
    /\ ret.pre.default_bucket = None => data.default_bucket = Some(ret.name)
    /\ ret.pre.default_bucket # None => data.default_bucket = ret.pre.default_bucket

C4_Witness ==
  /\ ret.op = "add_bucket"
  /\ HasName(ret.pre.buckets, ret.name)
  /\ ret.pre.default_bucket # None
  /\ ret.pre.default_bucket # Some(ret.name)
  /\ Len(data.buckets) = Len(ret.pre.buckets) + 1

\* C5 as stated: after forget_bucket(X) buckets is the previous sequence
\* without the entries named X; without such an entry the call succeeds.
C5_ForgetAsStated ==
  ret.op = "forget_bucket" =>
    /\ data.buckets = WithoutName(ret.pre.buckets, ret.name)
    /\ ~HasName(ret.pre.buckets, ret.name) =>
         data.buckets = ret.pre.buckets /\ ret.res = Ok

\* C5 amended: a forget_bucket(X) that returns Ok leaves the previous
\* sequence without the entries named X, order kept; it fails only with a
\* write error, and then buckets is unfiltered (the write that clears the
\* default failed) or filtered (the last write failed); without an entry
\* named X the sequence is unchanged.
C5_Forget ==
  ret.op = "forget_bucket" =>
    /\ ret.res \in {Ok, IoError}
    /\ ret.res = Ok => data.buckets = WithoutName(ret.pre.buckets, ret.name)
    /\ ret.res = IoError =>
         data.buckets = IF ret.pre.default_bucket = Some(ret.name) /\ ret.docs = <<>>
                        THEN ret.pre.buckets
                        ELSE WithoutName(ret.pre.buckets, ret.name)
    /\ ~HasName(ret.pre.buckets, ret.name) => data.buckets = ret.pre.buckets

C5_Witness ==
  /\ ret.op = "forget_bucket"
  /\ ret.res = Ok
  /\ Len(ret.pre.buckets) = 3
  /\ Len(data.buckets) = 1
  /\ ret.pre.buckets[2].name # ret.name

\* C10: after a successful load, add_bucket, set_default_bucket,
\* unset_default_bucket or forget_bucket the document in the store file is
\* the in-memory registry.
C10_FileIsMemory ==
  (ret.op \in StoreOps \cup {"load"} /\ ret.res = Ok) =>
    /\ file.kind = "json"
    /\ from_str(file.doc) = data
    /\ file.doc = to_string(data)

C10_Witness ==
  /\ ret.op = "load"
  /\ ret.res = Ok
  /\ ret.prefile.kind = "json"
  /\ Len(data.buckets) = 2
  /\ data.default_bucket # None
  /\ faults > 0

\* ---- the commands of src/args.rs and Bucket::make_dir ----

\* names given to mkdir, and names of entries somebody else creates
MkNames == {<<"t">>}
ExtNames == {<<"n", "o", "t", "e", "s">>}

NoBucket == "No bucket to choose from"

Digit(i) == <<"0", "1", "2", "3", "4", "5", "6", "7", "8", "9">>[i + 1]

RECURSIVE Digits(_)
Digits(n) == IF n < 10 THEN <<Digit(n)>> ELSE Digits(n \div 10) \o <<Digit(n % 10)>>

\* {:0w}: at least w digits, padded with zeros
Pad(n, w) ==
  LET ds == Digits(n)
  IN  IF Len(ds) >= w THEN ds ELSE [i \in 1..(w - Len(ds)) |-> "0"] \o ds

\* format!("{:04}{:02}{:02}_{}", year, month, day, name)
FullName(date, name) ==
  Pad(date.year, 4) \o Pad(date.month, 2) \o Pad(date.day, 2) \o <<"_">> \o name

\* a make_dir without the exists check (create_dir_all)
make_dir_all(b, name, date, ents, createOk) ==
  LET path == <<b.path, FullName(date, name)>>
  IN  IF ~createOk
      THEN [res |-> IoError, made |-> None, entries |-> ents]
      ELSE [res |-> Ok, made |-> Some(path), entries |-> ents \cup {path}]

\* Bucket::make_dir; createOk is the outcome of fs::create_dir
make_dir(b, name, date, ents, createOk) ==
  LET path == <<b.path, FullName(date, name)>>
  IN  IF path \in ents
      THEN [res |-> PathExists, made |-> None, entries |-> ents]
      ELSE IF ~createOk
      THEN [res |-> IoError, made |-> None, entries |-> ents]
      ELSE [res |-> Ok, made |-> Some(path), entries |-> ents \cup {path}]

\* name_with_date.splitn(2, "_")
SplitN2(s) ==
  LET us == {i \in 1..Len(s) : s[i] = "_"}
  IN  IF us = {} THEN <<s>>
      ELSE <<SubSeq(s, 1, Min(us) - 1), SubSeq(s, Min(us) + 1, Len(s))>>

\* handle_ls after Store::load returned d. denied: a directory fs::read_dir
\* fails on; bad: an entry the directory iterator fails on. The buckets are
\* read in registry order; strings[1] of an entry without "_" panics, and
\* the table is then never printed.
ls(d, filter, ents, denied, bad) ==
  LET listed(i) == filter = None \/ d.buckets[i].name = filter[1]
      readable(i) == Some(d.buckets[i].path) # denied
      inside(i) == {e \in ents : e[1] = d.buckets[i].path /\ Some(e) # bad}
      mal(i) == listed(i) /\ readable(i)
                /\ \E e \in inside(i) : Len(SplitN2(e[2])) < 2
      mals == {i \in 1..Len(d.buckets) : mal(i)}
      last == IF mals = {} THEN Len(d.buckets) ELSE Min(mals) - 1
      rows(i) == IF listed(i) /\ readable(i)
                 THEN {<<d.buckets[i].name, SplitN2(e[2])[1], SplitN2(e[2])[2], e>> :
                         e \in inside(i)}
                 ELSE {}
      unread == SelectSeq([i \in 1..last |-> i],
                          LAMBDA i : listed(i) /\ ~readable(i))
      errs == SelectSeq([i \in 1..last |-> i],
                        LAMBDA i : listed(i) /\ readable(i) /\ bad # None
                                   /\ bad[1][1] = d.buckets[i].path)
      lines == [k \in 1..Len(unread) |-> <<"Unable to read dir:", d.buckets[unread[k]].path>>]
               \o [k \in 1..Len(errs) |-> <<"Error reading dir:", bad[1]>>]
  IN  IF mals = {}
      THEN [lines |-> lines \o << <<"table", [i \in 1..Len(d.buckets) |-> rows(i)]>> >>,
            exit |-> 0]
      ELSE [lines |-> lines \o << <<"panicked">> >>, exit |-> 101]

\* the failures of fs::create_dir and fs::read_dir the environment may choose
\* createOk: the outcome of fs::create_dir; denied: a directory fs::read_dir
\* fails on; bad: an entry the directory iterator fails on
DirIo(createOk, denied, bad) == [createOk |-> createOk, denied |-> denied, bad |-> bad]

NoDirFault == DirIo(TRUE, None, None)

CreateFaults == IF faults < MaxFaults THEN {DirIo(FALSE, None, None)} ELSE {}

ReadFaults ==
  IF faults < MaxFaults
  THEN {DirIo(TRUE, Some(p), None) : p \in Dirs}
       \cup {DirIo(TRUE, None, Some(e)) : e \in entries}
  ELSE {}

\* the environment of a command that reads the store and then a directory
DirChoices(dirFaults) ==
  {<<io, NoDirFault>> : io \in {NoFault} \cup LoadFaults}
  \cup {<<NoFault, dio>> : dio \in dirFaults}

\* one invocation: main, handle_parsed_args and the handler. l: what
\* Store::load returned; o: the Store operation performed after it; lines:
\* what the handler prints after a successful load. The process ends with
\* the command, so a failure of the environment leaves nothing behind but
\* the file
Run(verb, bucket, l, o, trunc, lines) ==
  /\ cmd' = Cmd(verb, bucket, IF l.res = Ok THEN o.res ELSE l.res)
  /\ file' = IF l.res = Ok THEN FileAfter(l.file, o, trunc) ELSE l.file
  /\ out' = l.lines \o (IF l.res # Ok THEN << <<l.res>> >>
                        ELSE IF o.res # Ok THEN << <<"Error:", o.res>> >>
                        ELSE lines)
  /\ exit' = 0
  /\ UNCHANGED <<storeVars, faults, entries, today, procs>>

\* handle_bucket_add
HandleBucketAdd ==
  \E a \in Adds, exists \in BOOLEAN, io \in {NoFault} \cup LoadFaults \cup WriteFaults :
    IF ~exists
    THEN /\ io = NoFault
         /\ cmd' = Cmd("bucket add", Some(a[1]), Ok)
         /\ out' = << <<"Path does not exist:", a[2]>> >>
         /\ exit' = 0
         /\ UNCHANGED <<storeVars, file, faults, entries, today, procs>>
    ELSE \E l \in {load(file, io.home, io.lf, io.trunc)} :
           /\ l.res = Ok => Len(l.data.buckets) < MaxCliBuckets
           /\ \E o \in {add_bucket(l.data, a[1], a[2], io.f)} :
                Run("bucket add", Some(a[1]), l, o, io.trunc, <<>>)

\* handle_bucket_default
HandleBucketDefault ==
  \E name \in {None} \cup {Some(n) : n \in Names},
     io \in {NoFault} \cup LoadFaults \cup WriteFaults :
    \E l \in {load(file, io.home, io.lf, io.trunc)} :
      IF name # None
      THEN \E o \in {set_default_bucket(l.data, name[1], io.f # 1)} :
             Run("bucket default", name, l, o, io.trunc, <<>>)
      ELSE \E db \in {default_bucket(l.data)} :
             /\ io.f = 0
             /\ Run("bucket default", None, l, Outcome(l.data, <<>>, Ok), io.trunc,
                    IF db # None THEN << <<db[1].name>> >>
                    ELSE << <<"Default bucket is not set">> >>)

\* handle_bucket_forget
HandleBucketForget ==
  \E name \in Names, io \in {NoFault} \cup LoadFaults \cup WriteFaults :
    \E l \in {load(file, io.home, io.lf, io.trunc)} :
      \E o \in {forget_bucket(l.data, name, io.f)} :
        Run("bucket forget", Some(name), l, o, io.trunc,
            IF Len(o.data.buckets) = Len(l.data.buckets)
            THEN << <<"Bucket does not exist:", name>> >> ELSE <<>>)

\* handle_bucket_ls
HandleBucketLs ==
  \E io \in {NoFault} \cup LoadFaults :
    \E l \in {load(file, io.home, io.lf, io.trunc)} :
      Run("bucket ls", None, l, Outcome(l.data, <<>>, Ok), io.trunc,
          << <<"table", [i \in 1..Len(l.data.buckets) |->
                           <<l.data.buckets[i].name, l.data.buckets[i].path>>]>> >>)

\* handle_ls
HandleLs ==
  \E filter \in {None} \cup {Some(n) : n \in Names}, c \in DirChoices(ReadFaults) :
    \E l \in {load(file, c[1].home, c[1].lf, c[1].trunc)} :
      \E r \in {ls(l.data, filter, entries, c[2].denied, c[2].bad)} :
        /\ cmd' = Cmd("ls", filter, l.res)
        /\ file' = l.file
        /\ out' = l.lines \o (IF l.res # Ok THEN << <<l.res>> >> ELSE r.lines)
        /\ exit' = IF l.res = Ok THEN r.exit ELSE 0
        /\ UNCHANGED <<storeVars, faults, entries, today, procs>>

\* a selection that falls back to the default bucket
selected_or_default(d, bucket) ==
  IF bucket # None /\ find_bucket(d, bucket[1]) # None
  THEN find_bucket(d, bucket[1]) ELSE default_bucket(d)

\* the bucket handle_mkdir creates in: the one -b names, else the default
selected(d, bucket) ==
  IF bucket # None THEN find_bucket(d, bucket[1]) ELSE default_bucket(d)

\* handle_mkdir
HandleMkdir ==
  \E name \in MkNames, bucket \in {None} \cup {Some(n) : n \in Names},
     c \in DirChoices(CreateFaults) :
    \E l \in {load(file, c[1].home, c[1].lf, c[1].trunc)} :
      \E selected_bucket \in {selected(l.data, bucket)} :
        \E m \in {IF l.res = Ok /\ selected_bucket # None
                  THEN make_dir(selected_bucket[1], name, today, entries, c[2].createOk)
                  ELSE [res |-> IF l.res # Ok THEN l.res ELSE NoBucket,
                        made |-> None, entries |-> entries]} :
          /\ cmd' = MkdirCmd(bucket, m.res, name, l.data,
                             IF l.res = Ok THEN selected_bucket ELSE None, m.made,
                             entries, today)
          /\ file' = l.file
          /\ entries' = m.entries
          /\ out' = l.lines \o (IF l.res # Ok THEN << <<l.res>> >>
                                ELSE IF selected_bucket = None THEN << <<NoBucket>> >>
                                ELSE IF m.res = Ok THEN << <<"created", m.made[1]>> >>
                                ELSE << <<"Error:", m.res>> >>)
          /\ exit' = 0
          /\ UNCHANGED <<storeVars, faults, today, procs>>

\* ---- what happens outside the tool ----

\* somebody creates an entry in a bucket base directory
EnvCreate ==
  \E d \in Dirs, n \in ExtNames :
    /\ <<d, n>> \notin entries
    /\ entries' = entries \cup {<<d, n>>}
    /\ UNCHANGED <<storeVars, file, faults, cmd, today, out, exit, procs>>

\* somebody removes an entry
EnvRemove ==
  \E e \in entries :
    /\ entries' = entries \ {e}
    /\ UNCHANGED <<storeVars, file, faults, cmd, today, out, exit, procs>>

\* midnight
Tick ==
  /\ [today EXCEPT !.day = today.day + 1] \in Dates
  /\ today' = [today EXCEPT !.day = today.day + 1]
  /\ UNCHANGED <<storeVars, file, faults, entries, cmd, out, exit, procs>>

\* every command, with entries made by the tool and by others
NextCli ==
  \/ HandleBucketAdd
  \/ HandleBucketDefault
  \/ HandleBucketForget
  \/ HandleBucketLs
  \/ HandleLs
  \/ HandleMkdir
  \/ EnvCreate

SpecCli == Init /\ [][NextCli]_vars

\* the registries the commands can leave in the store file: buckets from
\* bucket add, a default that names one of them or none
Registries ==
  {d \in [default_bucket : {None} \cup {Some(n) : n \in Names},
          buckets : UNION {[1..n -> {Bucket(a[1], a[2]) : a \in Adds}] :
                             n \in 0..MaxCliBuckets}] :
     d.default_bucket # None =>
       \E i \in 1..Len(d.buckets) : d.buckets[i].name = d.default_bucket[1]}

\* mkdir over several days, with directories removed in between, on every
\* store file the commands can leave
InitMkdir ==
  /\ pc = "none"
  /\ data = NewData
  /\ bucket_names = {}
  /\ file \in {NoFile, Garbage} \cup {JsonFile(to_string(d)) : d \in Registries}
  /\ ret = Call("new", "", "", Ok, NewData, NoFile, <<>>)
  /\ faults = 0
  /\ entries = {}
  /\ cmd = NoCmd
  /\ today = Date(2024, 3, 5)
  /\ out = <<>>
  /\ exit = 0
  /\ procs = <<>>

NextMkdir ==
  \/ HandleMkdir
  \/ EnvRemove
  \/ Tick

SpecMkdir == InitMkdir /\ [][NextMkdir]_vars

\* ---- the contracts of mkdir and of the process ----

\* the registry a command finds in the store file
Registry(fl) == IF fl.kind = "json" THEN from_str(fl.doc) ELSE NewData

FirstNamed(d, x) ==
  {i \in 1..Len(d.buckets) :
     d.buckets[i].name = x /\ \A j \in 1..(i - 1) : d.buckets[j].name # x}

LoadFailed(c) ==
  c.res \in {StoreUnavailable, ParseError} \/ (c.res = IoError /\ c.target = None)

\* YYYYMMDD of the days of Dates, written out
Stamp(date) ==
  IF date = Date(2024, 3, 5) THEN <<"2", "0", "2", "4", "0", "3", "0", "5">>
  ELSE <<"2", "0", "2", "4", "0", "3", "0", "6">>

Dated(date, name) == Stamp(date) \o <<"_">> \o name

\* C6: mkdir creates only in the first bucket named by -b when -b is given
\* and only in the default bucket when it is not; without such a bucket
\* (also when -b names no registered bucket and a default exists) it creates
\* nothing and prints "No bucket to choose from".
C6_MkdirBucket ==
  cmd.verb = "mkdir" =>
    LET reg == cmd.data
        wanted == IF cmd.bucket # None THEN cmd.bucket ELSE reg.default_bucket
        chosen == IF wanted = None \/ LoadFailed(cmd) THEN {}
                  ELSE FirstNamed(reg, wanted[1])
    IN  /\ cmd.res = Ok <=> cmd.made # None
        /\ cmd.made # None =>
             \E i \in chosen :
               cmd.made = Some(<<reg.buckets[i].path, Dated(cmd.date, cmd.name)>>)
        /\ chosen = {} =>
             /\ cmd.made = None
             /\ \/ LoadFailed(cmd)
                \/ cmd.res = NoBucket /\ \E k \in 1..Len(out) : out[k] = <<NoBucket>>
        /\ chosen # {} =>
             /\ cmd.res \in {Ok, PathExists, IoError}
             /\ \A k \in 1..Len(out) : out[k] # <<NoBucket>>

C6_Witness ==
  /\ cmd.verb = "mkdir"
  /\ cmd.bucket = Some("b")
  /\ cmd.res = NoBucket
  /\ ~HasName(cmd.data.buckets, "b")
  /\ default_bucket(cmd.data) # None
  /\ entries = cmd.entries0

\* the directory the make_dir call of the last mkdir is about
MkPath(c) == <<c.target[1].path, Dated(c.date, c.name)>>

\* C7 as stated: make_dir fails with PathExists when
\* <bucket path>/<YYYYMMDD>_<name> exists, and otherwise creates exactly that
\* directory and returns its path.
C7_MakeDirAsStated ==
  (cmd.verb = "mkdir" /\ cmd.target # None) =>
    IF MkPath(cmd) \in cmd.entries0
    THEN cmd.res = PathExists /\ cmd.made = None
    ELSE cmd.res = Ok /\ cmd.made = Some(MkPath(cmd))

\* C7 amended: make_dir fails with PathExists and changes nothing when the
\* path exists; otherwise it creates exactly that directory and returns its
\* path, or fs::create_dir fails and nothing is created. After a make_dir
\* that succeeded, the next one for the same bucket, name and date fails with
\* PathExists as long as the directory is not removed.
C7_Call ==
  (cmd.verb = "mkdir" /\ cmd.target # None) =>
    IF MkPath(cmd) \in cmd.entries0
    THEN cmd.res = PathExists /\ cmd.made = None
    ELSE \/ cmd.res = Ok /\ cmd.made = Some(MkPath(cmd))
         \/ cmd.res = IoError /\ cmd.made = None

\* what a mkdir step does to the directories
C7_Effect ==
  (cmd'.verb = "mkdir" /\ cmd' # cmd) =>
    /\ cmd'.entries0 = entries
    /\ entries' = IF cmd'.made = None THEN entries ELSE entries \cup {cmd'.made[1]}

C7_Twice ==
  (/\ cmd.verb = "mkdir"
   /\ cmd.res = Ok
   /\ cmd.made[1] \in entries
   /\ cmd'.verb = "mkdir"
   /\ cmd' # cmd
   /\ cmd'.target # None
   /\ MkPath(cmd') = cmd.made[1]) => cmd'.res = PathExists

C7_MakeDir == []C7_Call /\ [][C7_Effect /\ C7_Twice]_vars

C7_Witness ==
  /\ cmd.verb = "mkdir"
  /\ cmd.res = PathExists
  /\ cmd.target # None
  /\ MkPath(cmd) \in entries
  /\ Cardinality(entries) = 2
  /\ cmd.date = Date(2024, 3, 6)

\* C8: every command ends with exit status 0 and, when its operation failed,
\* with a message printed.
C8_ExitsWithSuccess ==
  /\ exit = 0
  /\ cmd.res # Ok => out # <<>>

\* ---- two invocations of bucket add at the same time ----

Procs == {1, 2}

\* a registry somebody left before the two invocations start
Before == StoreData(Some("c"), <<Bucket("c", "r")>>)

\* an invocation. pc: where it is; add: its <NAME> <DIR>; data: its
\* Store.data; pending: the documents add_bucket still has to write; res:
\* the Result it ends with
Proc(pc0, a, d, w, r) == [pc |-> pc0, add |-> a, data |-> d, pending |-> w, res |-> r]

InitRace ==
  /\ pc = "none"
  /\ data = NewData
  /\ bucket_names = {}
  /\ file \in {NoFile, JsonFile(to_string(Before))}
  /\ ret = Call("new", "", "", Ok, NewData, NoFile, <<>>)
  /\ faults = 0
  /\ entries = {}
  /\ cmd = NoCmd
  /\ today = Date(2024, 3, 5)
  /\ out = <<>>
  /\ exit = 0
  /\ procs = [p \in Procs |-> Proc("idle", <<"", "">>, NewData, <<>>, Ok)]

raceVars == <<storeVars, faults, entries, cmd, today, out, exit>>

\* main, parse_args: the two commands are given different buckets
PStart(p) ==
  /\ procs[p].pc = "idle"
  /\ \E a \in Adds :
       /\ \A q \in Procs \ {p} : procs[q].add # a
       /\ procs' = [procs EXCEPT ![p] = Proc("init", a, NewData, <<>>, Ok)]
  /\ UNCHANGED <<file, raceVars>>

\* Store::load: Store::init when the file does not exist yet
PInit(p) ==
  /\ procs[p].pc = "init"
  /\ file' = IF file.kind = "none" THEN FileAfter(file, persist(NewData, TRUE), FALSE)
             ELSE file
  /\ procs' = [procs EXCEPT ![p].pc = "read"]
  /\ UNCHANGED raceVars

\* Store::load: Store::internal_load
PRead(p) ==
  /\ procs[p].pc = "read"
  /\ procs' = [procs EXCEPT ![p] =
                 IF file.kind = "json"
                 THEN Proc("loaded", procs[p].add, from_str(file.doc), <<>>, Ok)
                 ELSE Proc("done", procs[p].add, NewData, <<>>,
                           IF file.kind = "none" THEN IoError ELSE ParseError)]
  /\ UNCHANGED <<file, raceVars>>

\* Store::add_bucket up to its first fs::write
PAdd(p) ==
  /\ procs[p].pc = "loaded"
  /\ \E o \in {add_bucket(procs[p].data, procs[p].add[1], procs[p].add[2], 0)} :
       procs' = [procs EXCEPT ![p] =
                   Proc(IF o.docs = <<>> THEN "done" ELSE "write", procs[p].add,
                        o.data, o.docs, o.res)]
  /\ UNCHANGED <<file, raceVars>>

\* one fs::write of Store::persist
PWrite(p) ==
  /\ procs[p].pc = "write"
  /\ file' = JsonFile(Head(procs[p].pending))
  /\ procs' = [procs EXCEPT ![p].pending = Tail(procs[p].pending),
                            ![p].pc = IF Len(procs[p].pending) = 1 THEN "done"
                                      ELSE "write"]
  /\ UNCHANGED raceVars

NextRace ==
  \E p \in Procs :
    \/ PStart(p)
    \/ PInit(p)
    \/ PRead(p)
    \/ PAdd(p)
    \/ PWrite(p)

SpecRace == InitRace /\ [][NextRace]_vars

BothDone == \A p \in Procs : procs[p].pc = "done" /\ procs[p].res = Ok

Own(p) == Bucket(procs[p].add[1], procs[p].add[2])

InFile(b) == \E i \in 1..Len(Registry(file).buckets) : Registry(file).buckets[i] = b

Saw(p, b) == \E i \in 1..Len(procs[p].data.buckets) : procs[p].data.buckets[i] = b

\* C9: when both invocations have ended with success, the store file is the
\* registry of one of them, never a merge: it holds the bucket of at least
\* one, and of both only if one invocation loaded what the other wrote.
C9_LastWriterWins ==
  BothDone =>
    /\ \E p \in Procs : file = JsonFile(to_string(procs[p].data))
    /\ \E p \in Procs : InFile(Own(p))
    /\ (\A p \in Procs : InFile(Own(p))) =>
         \E p \in Procs : \E q \in Procs \ {p} : Saw(p, Own(q))

\* both report success and the file holds only one of the two new buckets
C9_Witness ==
  /\ BothDone
  /\ procs[1].add[1] # procs[2].add[1]
  /\ InFile(Own(2))
  /\ ~InFile(Own(1))

====
